---- MODULE Spec2Model ----
(***************************************************************************)
(* A model of invoice-gen's app.py: the currency formatter (fmt_idr,       *)
(* to_terbilang), the cell lookup (safe), the template filler              *)
(* (generate_pdf, _replace_in_paragraph) and the Streamlit session around  *)
(* them (CSV upload, row selection, "Generate PDFs", "Generate & Send      *)
(* Emails").                                                               *)
(*                                                                         *)
(* Text is a sequence of one-character strings, so that trimming, parsing  *)
(* and formatting are computed rather than assumed.  A Python float is     *)
(* a record: finite values are exact decimal fractions n/d (d a power of   *)
(* ten), and nan, inf and -inf are values of their own.  A Python          *)
(* exception is a record field naming the exception's class.               *)
(***************************************************************************)
EXTENDS Integers, Sequences, FiniteSets, TLC

VARIABLES
    \* generate_pdf (one fill of the template by one row)
    row, fpc, subtotals, total, replacements, fexc,
    \* fmt_idr / to_terbilang called on their own
    fmtIn, fmtOut, terOut, mpc,
    \* _replace_in_paragraph
    runs, runs0, prepl, ppc,
    \* the Streamlit session
    df, csvId, selected, generated, results, renderCalls, sendCalls,
    downloads, gmailOk, uiExc, last

fillVars == <<row, fpc, subtotals, total, replacements, fexc>>
fmtVars  == <<fmtIn, fmtOut, terOut, mpc>>
paraVars == <<runs, runs0, prepl, ppc>>
uiVars   == <<df, csvId, selected, generated, results, renderCalls, sendCalls,
              downloads, gmailOk, uiExc, last>>
vars     == <<fillVars, fmtVars, paraVars, uiVars>>

----------------------------------------------------------------------------
(* Text *)

Whitespace == {" ", "\t"}
Digits     == {"0", "1", "2", "3", "4", "5", "6", "7", "8", "9"}

RECURSIVE LStrip(_)
LStrip(s) == IF s # <<>> /\ Head(s) \in Whitespace THEN LStrip(Tail(s)) ELSE s

RECURSIVE RStrip(_)
RStrip(s) ==
    IF s # <<>> /\ s[Len(s)] \in Whitespace
    THEN RStrip(SubSeq(s, 1, Len(s) - 1)) ELSE s

\* str.strip()
Strip(s) == RStrip(LStrip(s))

DigitVal(c) ==
    CASE c = "0" -> 0 [] c = "1" -> 1 [] c = "2" -> 2 [] c = "3" -> 3
      [] c = "4" -> 4 [] c = "5" -> 5 [] c = "6" -> 6 [] c = "7" -> 7
      [] c = "8" -> 8 [] c = "9" -> 9

DigitChar(n) ==
    CASE n = 0 -> "0" [] n = 1 -> "1" [] n = 2 -> "2" [] n = 3 -> "3"
      [] n = 4 -> "4" [] n = 5 -> "5" [] n = 6 -> "6" [] n = 7 -> "7"
      [] n = 8 -> "8" [] n = 9 -> "9"

\* the decimal digits of a natural number
RECURSIVE NatStr(_)
NatStr(n) == IF n < 10 THEN <<DigitChar(n)>>
             ELSE NatStr(n \div 10) \o <<DigitChar(n % 10)>>

\* str(i) of a Python int
IntStr(i) == IF i < 0 THEN <<"-">> \o NatStr(-i) ELSE NatStr(i)

\* the value of a digit string, most significant digit first
RECURSIVE DigitsVal(_)
DigitsVal(s) == IF s = <<>> THEN 0
                ELSE 10 * DigitsVal(SubSeq(s, 1, Len(s) - 1)) + DigitVal(s[Len(s)])

RECURSIVE Pow10(_)
Pow10(k) == IF k = 0 THEN 1 ELSE 10 * Pow10(k - 1)

IsDigits(s) == \A k \in 1..Len(s) : s[k] \in Digits

LowerChar(c) ==
    CASE c = "N" -> "n" [] c = "A" -> "a" [] c = "I" -> "i" [] c = "F" -> "f"
      [] c = "T" -> "t" [] c = "Y" -> "y" [] OTHER -> c

Lower(s) == [k \in 1..Len(s) |-> LowerChar(s[k])]

----------------------------------------------------------------------------
(* Python values: floats, and the outcome of a call that may raise *)

Fin(n, d) == [k |-> "fin", n |-> n, d |-> d]
NaN       == [k |-> "nan", n |-> 0, d |-> 1]
PosInf    == [k |-> "inf", n |-> 1, d |-> 1]
NegInf    == [k |-> "inf", n |-> -1, d |-> 1]
Zero      == Fin(0, 1)

\* the one record that stands for the fraction n/d
RECURSIVE Norm(_, _)
Norm(n, d) == IF n = 0 THEN Fin(0, 1)
              ELSE IF d > 1 /\ n % 10 = 0 THEN Norm(n \div 10, d \div 10)
              ELSE Fin(n, d)

Sign(n) == IF n > 0 THEN 1 ELSE IF n < 0 THEN -1 ELSE 0

\* a * b on floats (IEEE: nan absorbs, inf * 0 is nan)
FMul(a, b) ==
    IF a.k = "nan" \/ b.k = "nan" THEN NaN
    ELSE IF a.k = "inf" \/ b.k = "inf"
         THEN IF Sign(a.n) * Sign(b.n) = 0 THEN NaN
              ELSE IF Sign(a.n) * Sign(b.n) > 0 THEN PosInf ELSE NegInf
    ELSE Norm(a.n * b.n, a.d * b.d)

\* a + b on floats (IEEE: inf + -inf is nan)
FAdd(a, b) ==
    IF a.k = "nan" \/ b.k = "nan" THEN NaN
    ELSE IF a.k = "inf" /\ b.k = "inf" THEN (IF a.n = b.n THEN a ELSE NaN)
    ELSE IF a.k = "inf" THEN a
    ELSE IF b.k = "inf" THEN b
    ELSE LET d == IF a.d >= b.d THEN a.d ELSE b.d
         IN  Norm(a.n * (d \div a.d) + b.n * (d \div b.d), d)

Ok(v)     == [ok |-> TRUE, v |-> v, exc |-> "none"]
Raise(e)  == [ok |-> FALSE, v |-> <<>>, exc |-> e]

\* float(s) of a str: surrounding whitespace ignored, an optional sign, then
\* nan, inf, infinity (any case) or digits with at most one decimal point
ParseFloat(s) ==
    LET t    == Strip(s)
        neg  == t # <<>> /\ Head(t) = "-"
        body == IF t # <<>> /\ Head(t) \in {"+", "-"} THEN Tail(t) ELSE t
        low  == Lower(body)
        dots == {k \in 1..Len(body) : body[k] = "."}
        sg   == IF neg THEN -1 ELSE 1
    IN  IF low = <<"n", "a", "n">> THEN Ok(NaN)
        ELSE IF low \in {<<"i", "n", "f">>,
                         <<"i", "n", "f", "i", "n", "i", "t", "y">>}
             THEN Ok(IF neg THEN NegInf ELSE PosInf)
        ELSE IF body = <<>> \/ Cardinality(dots) > 1 THEN Raise("ValueError")
        ELSE IF dots = {}
             THEN IF IsDigits(body) THEN Ok(Norm(sg * DigitsVal(body), 1))
                  ELSE Raise("ValueError")
        ELSE LET p    == CHOOSE k \in dots : TRUE
                 ip   == SubSeq(body, 1, p - 1)
                 fp   == SubSeq(body, p + 1, Len(body))
             IN  IF IsDigits(ip) /\ IsDigits(fp) /\ Len(ip) + Len(fp) > 0
                 THEN Ok(Norm(sg * (DigitsVal(ip) * Pow10(Len(fp)) + DigitsVal(fp)),
                              Pow10(Len(fp))))
                 ELSE Raise("ValueError")

\* a Python value handed to float(), str(): a str, an int, a float or None
PyStr(s)   == [t |-> "str",   s |-> s,    f |-> Zero]
PyInt(i)   == [t |-> "int",   s |-> <<>>, f |-> Fin(i, 1)]
PyFloat(f) == [t |-> "float", s |-> <<>>, f |-> f]
PyNone     == [t |-> "none",  s |-> <<>>, f |-> Zero]

\* float(value)
ToFloat(value) ==
    CASE value.t = "str"   -> ParseFloat(value.s)
      [] value.t = "none"  -> Raise("TypeError")
      [] OTHER             -> Ok(value.f)

\* round(f) of a float: to the nearest integer, ties to the even one
Round(f) ==
    IF f.k = "nan" THEN Raise("ValueError")
    ELSE IF f.k = "inf" THEN Raise("OverflowError")
    ELSE LET q == f.n \div f.d
             r == f.n % f.d
         IN  Ok(IF 2 * r < f.d THEN q
                ELSE IF 2 * r > f.d THEN q + 1
                ELSE IF q % 2 = 0 THEN q ELSE q + 1)

\* int(f) of a float: towards zero
Trunc(f) ==
    IF f.k = "nan" THEN Raise("ValueError")
    ELSE IF f.k = "inf" THEN Raise("OverflowError")
    ELSE Ok(IF f.n >= 0 THEN f.n \div f.d ELSE -((-f.n) \div f.d))

RECURSIVE Log10(_)
Log10(d) == IF d <= 1 THEN 0 ELSE 1 + Log10(d \div 10)

RECURSIVE ZeroPad(_, _)
ZeroPad(ds, w) == IF Len(ds) >= w THEN ds ELSE ZeroPad(<<"0">> \o ds, w)

\* str(f) of a finite float that is an exact decimal fraction: "3.0", "-2.5"
FloatStr(f) ==
    LET a  == IF f.n < 0 THEN -f.n ELSE f.n
        ip == NatStr(a \div f.d)
        fp == IF f.d = 1 THEN <<"0">> ELSE ZeroPad(NatStr(a % f.d), Log10(f.d))
    IN  (IF f.n < 0 THEN <<"-">> ELSE <<>>) \o ip \o <<".">> \o fp

\* str(value) of a str, an int, a float or None
ToStr(value) ==
    CASE value.t = "str"  -> value.s
      [] value.t = "none" -> <<"N", "o", "n", "e">>
      [] value.t = "int"  -> IntStr(value.f.n)
      [] OTHER            ->
            IF value.f.k = "nan" THEN <<"n", "a", "n">>
            ELSE IF value.f.k = "inf"
                 THEN (IF value.f.n < 0 THEN <<"-", "i", "n", "f">> ELSE <<"i", "n", "f">>)
            ELSE FloatStr(value.f)

\* f"{n:,}".replace(",", "."): the digits in groups of three from the right
RECURSIVE Group(_)
Group(ds) == IF Len(ds) <= 3 THEN ds
             ELSE Group(SubSeq(ds, 1, Len(ds) - 3)) \o <<".">>
                  \o SubSeq(ds, Len(ds) - 2, Len(ds))

GroupInt(i) == IF i < 0 THEN <<"-">> \o Group(NatStr(-i)) ELSE Group(NatStr(i))

----------------------------------------------------------------------------
(* helpers of app.py *)

\* fmt_idr(value): 1500000 -> "1.500.000"; ValueError and TypeError are caught,
\* any other exception leaves the function
FmtIdr(value) ==
    LET f == ToFloat(value)
        r == IF f.ok THEN Round(f.v) ELSE f
    IN  IF r.ok THEN Ok(GroupInt(r.v))
        ELSE IF r.exc \in {"ValueError", "TypeError"} THEN Ok(ToStr(value))
        ELSE Raise(r.exc)

\* num2words(n, lang="id"): the library's words for n, kept as an opaque text
\* that is a different one for each n
Num2Words(n) == <<"w">> \o IntStr(n)

\* str.capitalize() on the library's words
Capitalize(s) == IF s = <<>> THEN s
                 ELSE <<(IF Head(s) = "w" THEN "W" ELSE Head(s))>> \o Tail(s)

Rupiah == <<" ", "r", "u", "p", "i", "a", "h">>

\* round(value) of any Python value: a str or None has no __round__
RoundPy(value) ==
    CASE value.t \in {"str", "none"} -> Raise("TypeError")
      [] OTHER                       -> Round(value.f)

\* to_terbilang(total); n2wOk: whether num2words returns (it raises otherwise).
\* Every exception of the try block is caught; the handler's own fmt_idr call is
\* not guarded.
ToTerbilang(value, n2wOk) ==
    LET r == RoundPy(value)
    IN  IF r.ok /\ n2wOk THEN Ok(Capitalize(Num2Words(r.v)) \o Rupiah)
        ELSE FmtIdr(value)

\* a cell of a row: a Python value, or Missing when the row has no such key
Missing == [t |-> "missing", s |-> <<>>, f |-> Zero]

\* pd.isna(v) of a scalar
IsNa(v) == v.t = "none" \/ (v.t = "float" /\ v.f.k = "nan")

\* safe(row, key): row.get(key, ""), NaN turned into "", anything else str(v).strip()
Safe(r, key) ==
    LET v == IF key \in DOMAIN r /\ r[key].t # "missing" THEN r[key] ELSE PyStr(<<>>)
    IN  IF IsNa(v) THEN <<>> ELSE Strip(ToStr(v))

\* range(1, 7)
NumLines == 6

Key(name, i) == <<name, i>>

HeaderFields == <<"Client", "PIC", "Contact", "E-mail", "Address", "No. Invoice",
                  "No. Quotation", "Invoice Date", "Due Date">>

\* COLUMNS: marker name -> CSV column, every marker bound to the column of its name
COLUMNS == [k \in ({HeaderFields[j] : j \in 1..Len(HeaderFields)} \X {0})
                  \cup ({"Service", "Qty", "Price"} \X (1..NumLines)) |-> k]

\* COLUMNS.get(marker, default)
ColumnsGet(marker, default) == IF marker \in DOMAIN COLUMNS THEN COLUMNS[marker] ELSE default

NoKey == Key("", 0)

\* EMAIL_COLUMN
EMAIL_COLUMN == Key("E-mail", 0)

\* the parts of the state a specification leaves alone
FillIdle ==
    /\ row = <<>> /\ fpc = "idle" /\ subtotals = <<>> /\ total = Zero
    /\ replacements = <<>> /\ fexc = "none"

FmtIdle == fmtIn = PyNone /\ fmtOut = Ok(<<>>) /\ terOut = Ok(<<>>) /\ mpc = "idle"

ParaIdle == runs = <<>> /\ runs0 = <<>> /\ prepl = <<>> /\ ppc = "idle"

UiIdle ==
    /\ df = <<>> /\ csvId = 0 /\ selected = <<>> /\ generated = <<>>
    /\ results = <<>> /\ renderCalls = <<>> /\ sendCalls = <<>>
    /\ downloads = <<>> /\ gmailOk = FALSE /\ uiExc = "none" /\ last = "idle"

----------------------------------------------------------------------------
(* generate_pdf *)

\* `x or 0` handed to float(): an empty string gives the int 0
OrZero(s) == IF s = <<>> THEN PyInt(0) ELSE PyStr(s)

\* a subtotal that adds the quantity and the price
LineSubtotalSum(r, i) ==
    IF Safe(r, ColumnsGet(Key("Service", i), NoKey)) = <<>> THEN Zero
    ELSE LET q == ToFloat(OrZero(Safe(r, ColumnsGet(Key("Qty", i), NoKey))))
             p == ToFloat(OrZero(Safe(r, ColumnsGet(Key("Price", i), NoKey))))
         IN  IF q.ok /\ p.ok THEN FAdd(q.v, p.v) ELSE Zero

\* the body of the first loop for line i: the subtotal of line i, 0.0 when the
\* service is empty or float() raises ValueError on the quantity or the price
LineSubtotal(r, i) ==
    IF Safe(r, ColumnsGet(Key("Service", i), NoKey)) = <<>> THEN Zero
    ELSE LET q == ToFloat(OrZero(Safe(r, ColumnsGet(Key("Qty", i), NoKey))))
             p == ToFloat(OrZero(Safe(r, ColumnsGet(Key("Price", i), NoKey))))
         IN  IF q.ok /\ p.ok THEN FMul(q.v, p.v) ELSE Zero

\* whether the first loop adds line i's subtotal to total (it skips the line with
\* `continue` when the service is empty)
LineCounts(r, i) == Safe(r, ColumnsGet(Key("Service", i), NoKey)) # <<>>

\* the first loop, lines i..NumLines, from the subtotals and total so far
RECURSIVE SubtotalLoop(_, _, _)
SubtotalLoop(r, i, acc) ==
    IF i > NumLines THEN acc
    ELSE LET sub == LineSubtotal(r, i)
         IN  SubtotalLoop(r, i + 1,
                 [subs |-> [acc.subs EXCEPT ![i] = sub],
                  tot  |-> IF LineCounts(r, i) THEN FAdd(acc.tot, sub) ELSE acc.tot])

Subtotals(r) == SubtotalLoop(r, 1, [subs |-> [i \in 1..NumLines |-> Zero], tot |-> Zero])

\* the replacements dict: its entries in insertion order, and the exception that
\* ended the building, if one did
Put(acc, key, val) == [acc EXCEPT !.items = Append(@, <<key, val>>)]
Fail(acc, e)       == [acc EXCEPT !.exc = e]

\* replacements[key] = <call>: nothing once an exception has ended the building;
\* the entry when the call returns, its exception when it raises
PutCall(acc, key, res) ==
    IF acc.exc # "none" THEN acc
    ELSE IF res.ok THEN Put(acc, key, res.v)
    ELSE Fail(acc, res.exc)

\* the loop over the nine header fields
RECURSIVE HeaderLoop(_, _, _)
HeaderLoop(r, j, acc) ==
    IF j > Len(HeaderFields) THEN acc
    ELSE HeaderLoop(r, j + 1,
             Put(acc, Key(HeaderFields[j], 0),
                 Safe(r, ColumnsGet(Key(HeaderFields[j], 0), Key(HeaderFields[j], 0)))))

\* the {{Qty i}} entry of a line with a service: "" for an empty quantity, the
\* integer form of a numeric one, the raw text when ValueError or TypeError is
\* raised
QtyText(raw) ==
    IF raw = <<>> THEN Ok(<<>>)
    ELSE LET f == ParseFloat(raw)
             n == IF f.ok THEN Trunc(f.v) ELSE f
         IN  IF n.ok THEN Ok(IntStr(n.v))
             ELSE IF n.exc \in {"ValueError", "TypeError"} THEN Ok(raw)
             ELSE Raise(n.exc)

\* a second loop body that formats the cells of a line without a service
LineEntriesZeroFilled(r, subs, i, acc) ==
    PutCall(PutCall(PutCall(Put(acc, Key("Service", i),
                                Safe(r, ColumnsGet(Key("Service", i), NoKey))),
                            Key("Qty", i),
                            QtyText(Safe(r, ColumnsGet(Key("Qty", i), NoKey)))),
                    Key("Price", i),
                    FmtIdr(PyStr(Safe(r, ColumnsGet(Key("Price", i), NoKey))))),
            Key("Subtotal", i),
            FmtIdr(PyFloat(subs[i])))

\* the body of the second loop for line i
LineEntries(r, subs, i, acc) ==
    IF Safe(r, ColumnsGet(Key("Service", i), NoKey)) = <<>>
    THEN Put(Put(Put(Put(acc, Key("Service", i), <<>>),
                     Key("Qty", i), <<>>),
                 Key("Price", i), <<>>),
             Key("Subtotal", i), <<>>)
    ELSE PutCall(PutCall(PutCall(Put(acc, Key("Service", i),
                                     Safe(r, ColumnsGet(Key("Service", i), NoKey))),
                                 Key("Qty", i),
                                 QtyText(Safe(r, ColumnsGet(Key("Qty", i), NoKey)))),
                         Key("Price", i),
                         FmtIdr(PyStr(Safe(r, ColumnsGet(Key("Price", i), NoKey))))),
                 Key("Subtotal", i),
                 FmtIdr(PyFloat(subs[i])))

\* the second loop, lines i..NumLines; an exception ends it
RECURSIVE LineLoop(_, _, _, _)
LineLoop(r, subs, i, acc) ==
    IF i > NumLines \/ acc.exc # "none" THEN acc
    ELSE LineLoop(r, subs, i + 1, LineEntries(r, subs, i, acc))

\* {{Total}} and {{Terbilang}}
TotalEntries(tot, n2wOk, acc) ==
    PutCall(PutCall(acc, Key("Total", 0), FmtIdr(PyFloat(tot))),
            Key("Terbilang", 0), ToTerbilang(PyFloat(tot), n2wOk))

\* the replacements dict built from the row and the first loop's results
ReplacementsOf(r, st, n2wOk) ==
    TotalEntries(st.tot, n2wOk,
        LineLoop(r, st.subs, 1, HeaderLoop(r, 1, [items |-> <<>>, exc |-> "none"])))

\* what one call of generate_pdf computes: subtotals, total, replacements, and the
\* exception that ends it, if any (convertOk: docx2pdf's conversion returns)
FillWith(st, b, convertOk) ==
    [subs |-> st.subs, tot |-> st.tot, items |-> b.items,
     exc  |-> IF b.exc # "none" THEN b.exc
              ELSE IF ~convertOk THEN "ConvertError" ELSE "none"]

Fill(r, st, n2wOk, convertOk) == FillWith(st, ReplacementsOf(r, st, n2wOk), convertOk)

\* replacements[key] of an entry list, None when the key was never set
HasKey(items, key) == \E k \in 1..Len(items) : items[k][1] = key
Lookup(items, key) == items[CHOOSE k \in 1..Len(items) : items[k][1] = key][2]

----------------------------------------------------------------------------
(* _replace_in_paragraph *)

\* the characters of a marker name
NameChars(name) ==
    CASE name = "Client"        -> <<"C", "l", "i", "e", "n", "t">>
      [] name = "PIC"           -> <<"P", "I", "C">>
      [] name = "Contact"       -> <<"C", "o", "n", "t", "a", "c", "t">>
      [] name = "E-mail"        -> <<"E", "-", "m", "a", "i", "l">>
      [] name = "Address"       -> <<"A", "d", "d", "r", "e", "s", "s">>
      [] name = "No. Invoice"   -> <<"N", "o", ".", " ", "I", "n", "v", "o", "i", "c", "e">>
      [] name = "No. Quotation" -> <<"N", "o", ".", " ", "Q", "u", "o", "t", "a", "t", "i", "o", "n">>
      [] name = "Invoice Date"  -> <<"I", "n", "v", "o", "i", "c", "e", " ", "D", "a", "t", "e">>
      [] name = "Due Date"      -> <<"D", "u", "e", " ", "D", "a", "t", "e">>
      [] name = "Service"       -> <<"S", "e", "r", "v", "i", "c", "e">>
      [] name = "Qty"           -> <<"Q", "t", "y">>
      [] name = "Price"         -> <<"P", "r", "i", "c", "e">>
      [] name = "Subtotal"      -> <<"S", "u", "b", "t", "o", "t", "a", "l">>
      [] name = "Total"         -> <<"T", "o", "t", "a", "l">>
      [] name = "Terbilang"     -> <<"T", "e", "r", "b", "i", "l", "a", "n", "g">>

\* the placeholder token of an entry: "{{" + field + "}}", f"{{{{Qty {i}}}}}"
TokenText(key) ==
    <<"{", "{">> \o NameChars(key[1])
        \o (IF key[2] = 0 THEN <<>> ELSE <<" ">> \o IntStr(key[2]))
        \o <<"}", "}">>

IsPrefix(p, t) == Len(p) <= Len(t) /\ SubSeq(t, 1, Len(p)) = p

\* text.replace(old, val): the occurrences of old found from the left, none of
\* them overlapping another, each replaced by val
RECURSIVE PyReplace(_, _, _)
PyReplace(text, old, val) ==
    IF Len(text) < Len(old) THEN text
    ELSE IF IsPrefix(old, text)
         THEN val \o PyReplace(SubSeq(text, Len(old) + 1, Len(text)), old, val)
    ELSE <<Head(text)>> \o PyReplace(Tail(text), old, val)

\* the loop over replacements.items(): one replace after another, in the dict's
\* insertion order, each on the result of the one before
RECURSIVE ApplyAll(_, _)
ApplyAll(text, items) ==
    IF items = <<>> THEN text
    ELSE ApplyAll(PyReplace(text, TokenText(Head(items)[1]), Head(items)[2]), Tail(items))

\* paragraph.text: the text of the runs, joined
RECURSIVE ParagraphText(_)
ParagraphText(rs) == IF rs = <<>> THEN <<>> ELSE Head(rs) \o ParagraphText(Tail(rs))

\* a filler that substitutes in each run on its own
ReplaceRunByRun(rs, items) == [k \in 1..Len(rs) |-> ApplyAll(rs[k], items)]

\* _replace_in_paragraph(paragraph, replacements): the runs it leaves
ReplaceInParagraph(rs, items) ==
    LET full == ParagraphText(rs)
        new  == ApplyAll(full, items)
    IN  IF new # full /\ rs # <<>>
        THEN [k \in 1..Len(rs) |-> IF k = 1 THEN new ELSE <<>>]
        ELSE rs

\* a paragraph has at most MaxRuns runs
MaxRuns == 3

\* what a run of the template may hold: whole tokens, pieces of tokens, plain text
RunTexts == {<<"{", "{", "C", "l">>, <<"i", "e", "n", "t", "}", "}">>,
             <<"{", "{", "C", "l", "i", "e", "n", "t", "}", "}">>,
             <<"{", "{">>, <<"T", "o", "t", "a", "l">>, <<"}", "}">>,
             <<"{", "{", "P", "I", "C", "}", "}">>, <<"Y", "t", "h", ".", " ">>}

Paragraphs == UNION {[1..n -> RunTexts] : n \in 0..MaxRuns}

\* the entries the paragraphs are filled with: those of a row's replacements
\* whose tokens the runs can spell, in the dict's order
ParaKeys == {Key("Client", 0), Key("PIC", 0), Key("Total", 0)}

ClientCells == {PyStr(<<"P", "T", " ", "A">>), PyStr(<<>>),
                PyStr(<<"{", "{", "T", "o", "t", "a", "l", "}", "}">>),
                PyStr(<<"{", "{", "C", "l", "i", "e", "n", "t", "}", "}">>),
                PyStr(<<"{", "{", "P", "I", "C", "}", "}">>)}
PicCells    == {PyStr(<<"B", "u", "d", "i">>),
                PyStr(<<"{", "{", "T", "o", "t", "a", "l", "}", "}">>)}

\* a row of one line, 3 x 500
ParaRow(client, pic) ==
    [k \in DOMAIN COLUMNS |->
        CASE k = Key("Client", 0)  -> client
          [] k = Key("PIC", 0)     -> pic
          [] k = Key("Service", 1) -> PyStr(<<"W", "e", "b">>)
          [] k = Key("Qty", 1)     -> PyInt(3)
          [] k = Key("Price", 1)   -> PyInt(500)
          [] OTHER                 -> Missing]

\* the replacements generate_pdf builds for a row
BuildReplacements(r, n2wOk) == ReplacementsOf(r, Subtotals(r), n2wOk)

EntriesOf(items, keys) == SelectSeq(items, LAMBDA it : it[1] \in keys)

ParaReplacements ==
    {EntriesOf(BuildReplacements(ParaRow(c, q), TRUE).items, ParaKeys) :
        c \in ClientCells, q \in PicCells}

InitPara ==
    /\ runs \in Paragraphs
    /\ runs0 = runs
    /\ prepl \in ParaReplacements
    /\ ppc = "start"
    /\ FillIdle /\ FmtIdle /\ UiIdle

\* one call of _replace_in_paragraph, as generate_pdf makes it for every paragraph
\* of the body, of the table cells and of the headers and footers
ReplaceParagraph ==
    /\ ppc = "start"
    /\ runs' = ReplaceInParagraph(runs, prepl)
    /\ ppc' = "done"
    /\ UNCHANGED <<runs0, prepl, fillVars, fmtVars, uiVars>>

NextPara == ReplaceParagraph

SpecPara == InitPara /\ [][NextPara]_vars

----------------------------------------------------------------------------
(* One fill: generate_pdf(row) on rows drawn from small sets of cells *)

\* lines 1..MaxFilled of a row carry cells, the lines after them have no columns
MaxFilled == 2

SvcCells   == {PyStr(<<" ">>), PyStr(<<"W", "e", "b", " ">>)}
QtyCells   == {PyStr(<<"3">>), PyStr(<<"-", "2", ".", "5">>), PyStr(<<"N", "/", "A">>),
               PyStr(<<"n", "a", "n">>)}
PriceCells == {PyStr(<<>>), PyInt(500000), PyStr(<<"i", "n", "f">>),
               PyStr(<<" ", "0", ".", "5">>)}

\* the header cells of every row of the fill: a client, the other columns absent
ClientCell == PyStr(<<"P", "T", " ", "A", " ">>)

\* the last line of every row of the fill: a NaN service beside a quantity and a price
RowOf(svc, qty, price) ==
    [k \in DOMAIN COLUMNS |->
        IF k[2] \in 1..MaxFilled
        THEN CASE k[1] = "Service" -> svc[k[2]]
               [] k[1] = "Qty"     -> qty[k[2]]
               [] OTHER            -> price[k[2]]
        ELSE IF k[2] = NumLines
        THEN CASE k[1] = "Service" -> PyFloat(NaN)
               [] k[1] = "Qty"     -> PyStr(<<"3">>)
               [] OTHER            -> PyInt(500000)
        ELSE IF k = Key("Client", 0) THEN ClientCell ELSE Missing]

FillRows == {RowOf(svc, qty, price) :
                svc \in [1..MaxFilled -> SvcCells],
                qty \in [1..MaxFilled -> QtyCells],
                price \in [1..MaxFilled -> PriceCells]}

InitFill ==
    /\ row \in FillRows
    /\ fpc = "start"
    /\ subtotals = [i \in 1..NumLines |-> Zero]
    /\ total = Zero
    /\ replacements = <<>>
    /\ fexc = "none"
    /\ FmtIdle /\ ParaIdle /\ UiIdle

\* generate_pdf(row): the subtotals and the total, the replacements, then the
\* filled document saved and converted.  n2wOk: whether num2words returns;
\* convertOk: whether docx2pdf's conversion returns (it raises otherwise).
GeneratePdf ==
    /\ fpc = "start"
    /\ \E n2wOk \in BOOLEAN, convertOk \in BOOLEAN :
         \E f \in {Fill(row, Subtotals(row), n2wOk, convertOk)} :
            /\ subtotals' = f.subs
            /\ total' = f.tot
            /\ replacements' = f.items
            /\ fexc' = f.exc
            /\ fpc' = IF f.exc = "none" THEN "done" ELSE "raised"
    /\ UNCHANGED <<row, fmtVars, paraVars, uiVars>>

NextFill == GeneratePdf

SpecFill == InitFill /\ [][NextFill]_vars

----------------------------------------------------------------------------
(* The formatter on its own: fmt_idr(value) and to_terbilang(value) *)

\* amounts handed to the formatter range over -MaxAmount..MaxAmount tenths and
\* over the same range of thousands
MaxAmount == 15

FmtTexts == {<<>>, <<" ", "a", "b", "c", " ">>, <<"N", "/", "A">>,
             <<"1", "5", "0", "0", "0", "0", "0">>, <<" ", "3", " ">>,
             <<"+", "2", ".", "5">>, <<"-", "1", "5", "0", "0", ".", "5">>,
             <<"1", ".", "2", ".", "3">>, <<"n", "a", "n">>, <<"N", "a", "N">>,
             <<"i", "n", "f">>, <<"-", "i", "n", "f">>,
             <<"I", "n", "f", "i", "n", "i", "t", "y">>}

FmtInputs ==
    {PyStr(t) : t \in FmtTexts}
    \cup {PyInt(1000 * a) : a \in -MaxAmount..MaxAmount}
    \cup {PyFloat(Norm(a, 10)) : a \in -MaxAmount..MaxAmount}
    \cup {PyFloat(NaN), PyFloat(PosInf), PyFloat(NegInf), PyNone}

InitFmt ==
    /\ fmtIn \in FmtInputs
    /\ fmtOut = Ok(<<>>) /\ terOut = Ok(<<>>) /\ mpc = "start"
    /\ FillIdle /\ ParaIdle /\ UiIdle

\* a call of fmt_idr(value)
CallFmtIdr ==
    /\ mpc = "start"
    /\ fmtOut' = FmtIdr(fmtIn)
    /\ mpc' = "fmt"
    /\ UNCHANGED <<fmtIn, terOut, fillVars, paraVars, uiVars>>

\* a call of to_terbilang(value)
CallToTerbilang ==
    /\ mpc = "start"
    /\ \E n2wOk \in BOOLEAN : terOut' = ToTerbilang(fmtIn, n2wOk)
    /\ mpc' = "ter"
    /\ UNCHANGED <<fmtIn, fmtOut, fillVars, paraVars, uiVars>>

NextFmt == CallFmtIdr \/ CallToTerbilang

SpecFmt == InitFmt /\ [][NextFmt]_vars

\* C7: fmt_idr and to_terbilang return a string for every input and never raise;
\* fmt_idr returns an input that is no number, or is missing, as its trimmed
\* string form.
C7_FormatterTotal ==
    /\ mpc = "fmt" => fmtOut.ok
    /\ mpc = "ter" => terOut.ok
    /\ mpc = "fmt" /\ ~ToFloat(fmtIn).ok => fmtOut = Ok(Strip(ToStr(fmtIn)))

----------------------------------------------------------------------------
(* The Streamlit session: every interaction reruns the script from the top *)

\* an uploaded table has at most MaxRows rows
MaxRows == 2

\* uploaded files are told apart by (name, size): MaxFiles such identities
MaxFiles == 2

\* a row of the table: the columns the session itself reads
TableRow(client, email) == (Key("Client", 0) :> client) @@ (EMAIL_COLUMN :> email)

RowKinds ==
    {TableRow(PyStr(<<"P", "T", " ", "A">>), PyStr(<<" ", "a", "@", "x", ".", "i", "d", " ">>)),
     TableRow(PyStr(<<"C", "V", " ", "B", " ", "C">>), PyFloat(NaN)),
     TableRow(PyFloat(NaN), PyStr(<<" ">>))}

Tables == UNION {[1..n -> RowKinds] : n \in 1..MaxRows}

\* df.iloc[idx]: pandas counts rows from 0
Iloc(table, idx) == table[idx + 1]

\* df.index.tolist()
Options(table) == 0..(Len(table) - 1)

Range(f) == {f[k] : k \in DOMAIN f}

\* what st.multiselect can return: options, each at most once, in the order picked
Selections(table) ==
    {sel \in UNION {[1..n -> Options(table)] : n \in 0..Len(table)} :
        \A a, b \in DOMAIN sel : a # b => sel[a] # sel[b]}

\* _client_col
ClientCol == ColumnsGet(Key("Client", 0), Key("Client", 0))

\* (safe(row, _client_col) or f"invoice_{idx}").replace(" ", "_")
RowName(r, idx) ==
    LET c == Safe(r, ClientCol)
    IN  PyReplace(IF c # <<>> THEN c
                  ELSE <<"i", "n", "v", "o", "i", "c", "e", "_">> \o IntStr(idx),
                  <<" ">>, <<"_">>)

\* generate_pdf(row) as the session sees it: the bytes of the PDF of that row, or
\* the exception the fill or the conversion raised
RenderPdf(r, ok) == IF ok THEN Ok([pdfOf |-> r]) ELSE Raise("render failed")

\* how the work on one row ends: the fill and conversion raise, the send raises,
\* or neither does
RowOutcomes == {"ok", "render failed", "send failed"}

\* set(st.session_state.get("generated", {}).keys())
GeneratedKeys(gen) == {gen[k].idx : k \in 1..Len(gen)}

\* "clear stale downloads if the selection changed"
ClearStale(gen, sel) == IF GeneratedKeys(gen) # Range(sel) THEN <<>> ELSE gen

\* the loop of "Generate PDFs" from position k on; an exception of generate_pdf
\* leaves the loop and the script
RECURSIVE GenerateLoop(_, _, _, _, _)
GenerateLoop(table, sel, oks, k, acc) ==
    IF k > Len(sel) \/ acc.exc # "none" THEN acc
    ELSE LET idx == sel[k]
             r   == Iloc(table, idx)
             pdf == RenderPdf(r, oks[k])
         IN  GenerateLoop(table, sel, oks, k + 1,
                 IF pdf.ok
                 THEN [acc EXCEPT !.gen = Append(@, [idx |-> idx, name |-> RowName(r, idx),
                                                     data |-> pdf.v]),
                                  !.calls = Append(@, <<idx, TRUE>>)]
                 ELSE [acc EXCEPT !.exc = pdf.exc, !.calls = Append(@, <<idx, FALSE>>)])

NoEmailMessage(idx, name) ==
    <<"R", "o", "w", " ">> \o IntStr(idx) \o <<" ", "(">> \o name
        \o <<")", ":", " ", "n", "o", " ", "e", "m", "a", "i", "l", " ",
             "a", "d", "d", "r", "e", "s", "s">>

\* f"{recipient}: {exc}"
FailureMessage(recipient, exc) == recipient \o <<":", " ">> \o <<exc>>

\* a loop body that sends without looking at the recipient
SendStepUnchecked(acc, idx, r, out) ==
    LET recipient == Safe(r, EMAIL_COLUMN)
        pdf       == RenderPdf(r, out # "render failed")
    IN  IF ~pdf.ok
        THEN [acc EXCEPT !.results = Append(@, <<"error", FailureMessage(recipient, pdf.exc)>>),
                         !.renders = Append(@, <<idx, FALSE>>)]
        ELSE IF out = "send failed"
        THEN [acc EXCEPT !.results = Append(@, <<"error", FailureMessage(recipient, "send failed")>>),
                         !.renders = Append(@, <<idx, TRUE>>),
                         !.sends = Append(@, <<idx, FALSE>>)]
        ELSE [acc EXCEPT !.results = Append(@, <<"success", recipient>>),
                         !.renders = Append(@, <<idx, TRUE>>),
                         !.sends = Append(@, <<idx, TRUE>>)]

\* the body of the loop of "Generate & Send Emails" for one selected row, out
\* being how generate_pdf and send_email end for it
SendStep(acc, idx, r, out) ==
    LET recipient == Safe(r, EMAIL_COLUMN)
        name      == RowName(r, idx)
        pdf       == RenderPdf(r, out # "render failed")
    IN  IF recipient = <<>>
        THEN [acc EXCEPT !.results = Append(@, <<"error", NoEmailMessage(idx, name)>>)]
        ELSE IF ~pdf.ok
        THEN [acc EXCEPT !.results = Append(@, <<"error", FailureMessage(recipient, pdf.exc)>>),
                         !.renders = Append(@, <<idx, FALSE>>)]
        ELSE IF out = "send failed"
        THEN [acc EXCEPT !.results = Append(@, <<"error", FailureMessage(recipient, "send failed")>>),
                         !.renders = Append(@, <<idx, TRUE>>),
                         !.sends = Append(@, <<idx, FALSE>>)]
        ELSE [acc EXCEPT !.results = Append(@, <<"success", recipient>>),
                         !.renders = Append(@, <<idx, TRUE>>),
                         !.sends = Append(@, <<idx, TRUE>>)]

RECURSIVE SendLoop(_, _, _, _, _)
SendLoop(table, sel, outs, k, acc) ==
    IF k > Len(sel) THEN acc
    ELSE SendLoop(table, sel, outs, k + 1,
             SendStep(acc, sel[k], Iloc(table, sel[k]), outs[k]))

\* a rerun that clicks no button: the table and the selection shown, the stale
\* downloads cleared, the download buttons of what is left.  With nothing
\* selected the script stops before any of that.
ShowPage(sel) ==
    /\ selected' = sel
    /\ generated' = IF sel = <<>> THEN generated ELSE ClearStale(generated, sel)
    /\ downloads' = IF sel = <<>> THEN <<>> ELSE ClearStale(generated, sel)
    /\ results' = <<>> /\ renderCalls' = <<>> /\ sendCalls' = <<>>
    /\ uiExc' = "none"

\* a file dropped on the uploader: read when its (name, size) is not the one last
\* read.  The multiselect is keyed by its labels: it keeps its selection when the
\* new table's rows carry the labels of the old ones, and starts empty otherwise.
Upload(id, table) ==
    /\ csvId # id
    /\ df' = table /\ csvId' = id
    /\ \E sel \in {<<>>} \cup (IF Len(table) = Len(df) THEN {selected} ELSE {}) :
          ShowPage(sel)
    /\ last' = "upload"
    /\ UNCHANGED <<gmailOk, fillVars, fmtVars, paraVars>>

\* the rows picked in the multiselect changed
Select(sel) ==
    /\ csvId # 0
    /\ sel # selected
    /\ ShowPage(sel)
    /\ last' = "select"
    /\ UNCHANGED <<df, csvId, gmailOk, fillVars, fmtVars, paraVars>>

\* "Generate PDFs" clicked: the button is on the page when the last rerun got as
\* far as the buttons.  outs[k]: how generate_pdf ends for the k-th selected row.
ClickGenerate(outs) ==
    /\ csvId # 0 /\ selected # <<>>
    /\ LET kept == ClearStale(generated, selected)
           run  == GenerateLoop(df, selected, [k \in DOMAIN outs |-> outs[k] = "ok"], 1,
                                [gen |-> <<>>, calls |-> <<>>, exc |-> "none"])
       IN  /\ renderCalls' = run.calls
           /\ uiExc' = run.exc
           /\ generated' = IF run.exc = "none" THEN run.gen ELSE kept
           /\ downloads' = IF run.exc = "none" THEN run.gen ELSE <<>>
    /\ results' = <<>> /\ sendCalls' = <<>>
    /\ last' = "generate"
    /\ UNCHANGED <<df, csvId, selected, gmailOk, fillVars, fmtVars, paraVars>>

\* "Generate & Send Emails" clicked: the button is on the page when the last
\* rerun reached the end of the script
ClickSend(outs) ==
    /\ csvId # 0 /\ selected # <<>> /\ uiExc = "none"
    /\ LET kept == ClearStale(generated, selected)
           run  == IF gmailOk
                   THEN SendLoop(df, selected, outs, 1,
                                 [results |-> <<>>, renders |-> <<>>, sends |-> <<>>])
                   ELSE [results |-> <<>>, renders |-> <<>>, sends |-> <<>>]
       IN  /\ generated' = kept
           /\ downloads' = kept
           /\ results' = run.results
           /\ renderCalls' = run.renders
           /\ sendCalls' = run.sends
    /\ uiExc' = "none"
    /\ last' = "send"
    /\ UNCHANGED <<df, csvId, selected, gmailOk, fillVars, fmtVars, paraVars>>

\* the session from its start: nothing uploaded yet
Init ==
    /\ df = <<>> /\ csvId = 0 /\ selected = <<>> /\ generated = <<>>
    /\ results = <<>> /\ renderCalls = <<>> /\ sendCalls = <<>>
    /\ downloads = <<>> /\ uiExc = "none" /\ last = "start"
    /\ gmailOk \in BOOLEAN
    /\ FillIdle /\ FmtIdle /\ ParaIdle

Next ==
    \/ \E id \in 1..MaxFiles, table \in Tables : Upload(id, table)
    \/ \E sel \in Selections(df) : Select(sel)
    \/ \E outs \in [1..Len(selected) -> {"ok", "render failed"}] : ClickGenerate(outs)
    \/ \E outs \in [1..Len(selected) -> RowOutcomes] : ClickSend(outs)

Spec == Init /\ [][Next]_vars

\* the session with one table loaded, and both buttons
InitBatch ==
    /\ df \in Tables /\ csvId = 1 /\ selected = <<>> /\ generated = <<>>
    /\ results = <<>> /\ renderCalls = <<>> /\ sendCalls = <<>>
    /\ downloads = <<>> /\ uiExc = "none" /\ last = "upload"
    /\ gmailOk \in BOOLEAN
    /\ FillIdle /\ FmtIdle /\ ParaIdle

NextBatch ==
    \/ \E sel \in Selections(df) : Select(sel)
    \/ \E outs \in [1..Len(selected) -> {"ok", "render failed"}] : ClickGenerate(outs)
    \/ \E outs \in [1..Len(selected) -> RowOutcomes] : ClickSend(outs)

SpecBatch == InitBatch /\ [][NextBatch]_vars

----------------------------------------------------------------------------
(* Properties of the session *)

Attempted(calls, idx) == \E b \in BOOLEAN : <<idx, b>> \in Range(calls)

Count(seq, kind) == Cardinality({k \in 1..Len(seq) : seq[k][1] = kind})

NoAddress(idx) == Strip(ToStr(IF IsNa(Iloc(df, idx)[EMAIL_COLUMN]) THEN PyStr(<<>>)
                                ELSE Iloc(df, idx)[EMAIL_COLUMN])) = <<>>

SentBatch == last = "send" /\ gmailOk

\* C1: the batch of "Generate & Send Emails" ends with one outcome per selected
\* row, in selection order.  A row with no recipient address gets an error that
\* names the row, and no PDF and no send is attempted for it; every other row is
\* attempted whatever happened to the rows before it, and its outcome is a
\* success exactly when its PDF was made and its mail was sent.
C1_OneOutcomePerSelectedRow ==
    SentBatch =>
        /\ uiExc = "none"
        /\ Len(results) = Len(selected)
        /\ \A k \in 1..Len(selected) :
              LET idx == selected[k]
              IN  IF NoAddress(idx)
                  THEN /\ results[k][1] = "error"
                       /\ IsPrefix(<<"R", "o", "w", " ">> \o IntStr(idx) \o <<" ", "(">>,
                                   results[k][2])
                       /\ ~Attempted(renderCalls, idx)
                       /\ ~Attempted(sendCalls, idx)
                  ELSE /\ Attempted(renderCalls, idx)
                       /\ <<idx, TRUE>> \in Range(renderCalls) => Attempted(sendCalls, idx)
                       /\ results[k][1] \in {"success", "error"}
                       /\ results[k][1] = "success" <=> <<idx, TRUE>> \in Range(sendCalls)
                       /\ results[k][1] = "success"
                             => results[k][2] = Safe(Iloc(df, idx), EMAIL_COLUMN)
        /\ (\A c \in Range(renderCalls) \cup Range(sendCalls) : c[2])
              => /\ Count(results, "error") = Cardinality({k \in 1..Len(selected) : NoAddress(selected[k])})
                 /\ Count(results, "success") = Len(selected) - Count(results, "error")

\* C1's case: two rows sent, the first without an address, the second delivered
C1_Witness ==
    /\ SentBatch
    /\ Len(selected) = 2
    /\ NoAddress(selected[1]) /\ ~NoAddress(selected[2])
    /\ results[1][1] = "error" /\ results[2][1] = "success"

\* C2: in both batches a render failure of generate_pdf for one row does not
\* abort the batch: every selected row is still processed and the batch ends
\* with an outcome for each of them.
C2_RenderFailureKeepsBatchGoing ==
    /\ last = "generate" =>
          /\ uiExc = "none"
          /\ \A k \in 1..Len(selected) : Attempted(renderCalls, selected[k])
    /\ SentBatch =>
          /\ uiExc = "none"
          /\ Len(results) = Len(selected)

\* C10: every PDF a download button offers belongs to a row that is selected
\* now and was generated from the row at that index of the table loaded now.
C10_NoStaleDownloads ==
    \A k \in 1..Len(downloads) :
        /\ downloads[k].idx \in Range(selected)
        /\ downloads[k].idx \in Options(df)
        /\ downloads[k].data = [pdfOf |-> Iloc(df, downloads[k].idx)]

----------------------------------------------------------------------------
(* Properties of one fill *)

Lines == 1..NumLines

\* what the data model calls a present line: its service is non-empty once trimmed
Present(r, i) == Safe(r, Key("Service", i)) # <<>>

\* the number a quantity or price cell stands for: 0 for an empty cell, the parsed
\* value of a numeric one
CellNumber(r, key) == ToFloat(OrZero(Safe(r, key)))

\* quantity_i x price_i of a present line, 0 of a line that is absent or unparsable
Product(r, i) ==
    IF Present(r, i) /\ CellNumber(r, Key("Qty", i)).ok /\ CellNumber(r, Key("Price", i)).ok
    THEN FMul(CellNumber(r, Key("Qty", i)).v, CellNumber(r, Key("Price", i)).v)
    ELSE Zero

\* the sum of Product over a set of lines, each line once
RECURSIVE SumOver(_, _)
SumOver(r, S) == IF S = {} THEN Zero
                 ELSE LET i == CHOOSE x \in S : TRUE
                      IN  FAdd(Product(r, i), SumOver(r, S \ {i}))

PresentLines(r) == {i \in Lines : Present(r, i)}

Filled == fpc = "done"

OneAndAHalfMillion == <<"1", ".", "5", "0", "0", ".", "0", "0", "0">>

\* C3: in every filled document {{Total}} is the formatter's rendering of the sum of
\* quantity x price over exactly the present lines, each counted once and the
\* absent lines counted as 0; a present line with quantity 3 and price 500000
\* renders {{Subtotal i}} as 1.500.000.
C3_TotalIsSumOfPresentLines ==
    Filled =>
        /\ total = SumOver(row, PresentLines(row))
        /\ Lookup(replacements, Key("Total", 0)) = FmtIdr(PyFloat(SumOver(row, PresentLines(row)))).v
        /\ \A i \in Lines :
              /\ Present(row, i)
              /\ CellNumber(row, Key("Qty", i)) = Ok(Fin(3, 1))
              /\ CellNumber(row, Key("Price", i)) = Ok(Fin(500000, 1))
              => /\ Lookup(replacements, Key("Subtotal", i)) = OneAndAHalfMillion
                 /\ total = FAdd(Fin(1500000, 1), SumOver(row, PresentLines(row) \ {i}))

\* C3's case: a filled document whose only counted line is 3 x 500000, beside a
\* line with a blank service and a quantity and price of its own
C3_Witness ==
    /\ Filled
    /\ Present(row, 1) /\ ~Present(row, 2)
    /\ CellNumber(row, Key("Qty", 1)) = Ok(Fin(3, 1))
    /\ CellNumber(row, Key("Price", 1)) = Ok(Fin(500000, 1))
    /\ CellNumber(row, Key("Qty", 2)) = Ok(Fin(3, 1))
    /\ CellNumber(row, Key("Price", 2)) = Ok(Fin(500000, 1))
    /\ Lookup(replacements, Key("Total", 0)) = OneAndAHalfMillion

\* C4: the subtotal every line contributes to the total is a number that is
\* neither negative nor NaN, whatever the raw quantity and price are.
C4_SubtotalsNonNegative ==
    fpc # "start" =>
        \A i \in Lines : subtotals[i].k = "fin" /\ subtotals[i].n >= 0

\* C5: a line whose service is empty, blank, missing or NaN resolves {{Qty i}},
\* {{Price i}} and {{Subtotal i}} to the empty string and contributes 0 to the
\* total, whatever its quantity and price cells hold.
C5_BlankServiceBlanksLine ==
    fpc # "start" =>
        \A i \in Lines :
            Safe(row, Key("Service", i)) = <<>> =>
                /\ subtotals[i] = Zero
                /\ total = SumOver(row, PresentLines(row) \ {i})
                /\ \A name \in {"Qty", "Price", "Subtotal"} :
                      /\ Filled => HasKey(replacements, Key(name, i))
                      /\ HasKey(replacements, Key(name, i))
                            => Lookup(replacements, Key(name, i)) = <<>>

\* C5's case: a filled document of a row whose line 1 has a blank service and a
\* quantity and a price
C5_Witness ==
    /\ Filled
    /\ Safe(row, Key("Service", 1)) = <<>>
    /\ Safe(row, Key("Qty", 1)) # <<>> /\ Safe(row, Key("Price", 1)) # <<>>
    /\ Lookup(replacements, Key("Qty", 1)) = <<>>
    /\ Lookup(replacements, Key("Price", 1)) = <<>>
    /\ Lookup(replacements, Key("Subtotal", 1)) = <<>>

\* a quantity that is there and is no number: float() raises on it
NonNumeric(s) == s # <<>> /\ ~ParseFloat(s).ok

\* C8: on a line with a service, a quantity that is present and not numeric is
\* rendered verbatim in {{Qty i}}, the line contributes 0 to the total whatever
\* its price is, and the fill does not fail.
C8_NonNumericQtyVerbatim ==
    fpc # "start" =>
        \A i \in Lines :
            Present(row, i) /\ NonNumeric(Safe(row, Key("Qty", i))) =>
                /\ fexc \in {"none", "ConvertError"}
                /\ subtotals[i] = Zero
                /\ HasKey(replacements, Key("Qty", i))
                /\ Lookup(replacements, Key("Qty", i)) = Safe(row, Key("Qty", i))

----------------------------------------------------------------------------
(* Properties of _replace_in_paragraph *)

Tokens(items) == {TokenText(items[k][1]) : k \in 1..Len(items)}

\* the place of run k's first character in the paragraph's text
RunStart(rs, k) == Len(ParagraphText(SubSeq(rs, 1, k - 1))) + 1

OccursAt(text, tok, p) == p + Len(tok) - 1 <= Len(text) /\ SubSeq(text, p, p + Len(tok) - 1) = tok

Occurs(text, tok) == \E p \in 1..Len(text) : OccursAt(text, tok, p)

\* an occurrence of the token in the paragraph's text that no single run holds
SplitAcrossRuns(rs, tok) ==
    \E p \in 1..Len(ParagraphText(rs)) :
        /\ OccursAt(ParagraphText(rs), tok, p)
        /\ ~\E k \in 1..Len(rs) :
              /\ RunStart(rs, k) <= p
              /\ p + Len(tok) - 1 <= RunStart(rs, k) + Len(rs[k]) - 1

HasSplitToken == \E tok \in Tokens(prepl) : SplitAcrossRuns(runs0, tok)

FirstRunHoldsAll(rs) ==
    /\ rs # <<>>
    /\ rs[1] = ParagraphText(rs)
    /\ \A k \in 2..Len(rs) : rs[k] = <<>>

BraceFree(items) ==
    \A k \in 1..Len(items) : \A j \in 1..Len(items[k][2]) : items[k][2][j] \notin {"{", "}"}

RECURSIVE SinglePass(_, _)
SinglePass(text, items) ==
    IF text = <<>> THEN <<>>
    ELSE IF \E k \in 1..Len(items) : IsPrefix(TokenText(items[k][1]), text)
         THEN LET k == CHOOSE j \in 1..Len(items) : IsPrefix(TokenText(items[j][1]), text)
              IN  items[k][2]
                      \o SinglePass(SubSeq(text, Len(TokenText(items[k][1])) + 1, Len(text)), items)
    ELSE <<Head(text)>> \o SinglePass(Tail(text), items)

\* C9: substitution is single-pass and does not depend on the order of the
\* entries: a resolved value is never itself substituted, so the filled text is
\* the template text with exactly its own token occurrences replaced.
C9_SinglePassSubstitution ==
    ppc = "done" => ParagraphText(runs) = SinglePass(ParagraphText(runs0), prepl)

====
